---------------------------- MODULE Spec2Model ----------------------------
(***************************************************************************)
(* A model of io_converter_pix_wrapper/__init__.py: the ConverterPIX       *)
(* wrapper add-on.  Strings are sequences of one-character strings, so     *)
(* that slicing, prefix/suffix tests, splitting, joining and sorting are   *)
(* computed the way the Python code computes them.                         *)
(***************************************************************************)
EXTENDS Integers, Sequences, FiniteSets, TLC

VARIABLES
    platform,       \* sys.platform
    ld,             \* a call of get_archive_listdir: its inputs and its result
    exe,            \* the file at CONVERTER_PIX_PATH
    now,            \* the wall clock, time()
    threads,        \* the "update converterpix" threads started by register()
    reg_log,        \* how many register() calls have returned, and the last one
    upd_log,        \* the last CONV_PIX_WRAPPER_OT_UpdateEXE.execute call
    launch_saw,     \* what the last subprocess.run found at CONVERTER_PIX_PATH
    phase,          \* which dialog is open: "fileselect", "dialog" or "done"
    imp,            \* CONV_PIX_WRAPPER_OT_Import's properties
    li,             \* CONV_PIX_WRAPPER_OT_ListImport's properties
    scs_project_path, \* get_scs_globals().scs_project_path
    fs,             \* the files and directories on disk (temp dir, project)
    reports,        \* what the operators reported to the user, in order
    import_calls,   \* the calls of bpy.ops.scs_tools.import_pim
    last,           \* the last handler that ran, with its inputs
    selector        \* the file selector: the files the user has selected

vars == <<platform, ld, exe, now, threads, reg_log, upd_log, launch_saw,
          phase, imp, li, scs_project_path, fs, reports, import_calls, last,
          selector>>

-----------------------------------------------------------------------------
(* Python str operations on sequences of characters.                       *)

\* The characters the model uses, in code-point order (str comparison).
Ascii ==
    <<"\n", "\r", " ", "*", "-", ".", "/", "<", ">", "D", "F", "[", "\\", "]",
      "a", "b", "c", "d", "e", "g", "i", "j", "l", "m", "n", "o", "p", "q", "r",
      "s", "t", "v", "w", "x">>

Ord(c) == CHOOSE i \in 1..Len(Ascii) : Ascii[i] = c

\* s < t, as Python compares two str.
RECURSIVE StrLess(_, _)
StrLess(s, t) ==
    IF t = <<>> THEN FALSE
    ELSE IF s = <<>> THEN TRUE
    ELSE IF Head(s) = Head(t) THEN StrLess(Tail(s), Tail(t))
    ELSE Ord(Head(s)) < Ord(Head(t))

StartsWith(s, p) == Len(p) <= Len(s) /\ SubSeq(s, 1, Len(p)) = p

EndsWith(s, p) == Len(p) <= Len(s) /\ SubSeq(s, Len(s) - Len(p) + 1, Len(s)) = p

\* s.find(sub, k - 1) + 1: the first place at or after k where sub occurs in
\* s, 0 when there is none
RECURSIVE StrFind(_, _, _)
StrFind(s, sub, k) ==
    IF k + Len(sub) - 1 > Len(s) THEN 0
    ELSE IF SubSeq(s, k, k + Len(sub) - 1) = sub THEN k
    ELSE StrFind(s, sub, k + 1)

\* sub in s
Contains(s, sub) == StrFind(s, sub, 1) # 0

\* s[n:]
SliceFrom(s, n) == SubSeq(s, n + 1, Len(s))

\* s[:-n]
SliceDropLast(s, n) == SubSeq(s, 1, Len(s) - n)

\* s.split(sep), sep not empty
RECURSIVE StrSplit(_, _)
StrSplit(s, sep) ==
    LET i == StrFind(s, sep, 1)
    IN  IF i = 0 THEN <<s>>
        ELSE <<SubSeq(s, 1, i - 1)>> \o StrSplit(SliceFrom(s, i + Len(sep) - 1), sep)

\* s.replace(old, new) for single characters
StrReplace(s, old, new) == [i \in 1..Len(s) |-> IF s[i] = old THEN new ELSE s[i]]

\* s.rstrip(chars)
RECURSIVE RStrip(_, _)
RStrip(s, chars) ==
    IF s # <<>> /\ s[Len(s)] \in chars THEN RStrip(SubSeq(s, 1, Len(s) - 1), chars)
    ELSE s

\* sep.join(parts)
RECURSIVE StrJoin(_, _)
StrJoin(parts, sep) ==
    IF parts = <<>> THEN <<>>
    ELSE IF Len(parts) = 1 THEN parts[1]
    ELSE parts[1] \o sep \o StrJoin(Tail(parts), sep)

\* The concatenation of a sequence of sequences.
RECURSIVE Flatten(_)
Flatten(ss) == IF ss = <<>> THEN <<>> ELSE Head(ss) \o Flatten(Tail(ss))

\* sorted(list of str): insertion into a sorted list, stable.
RECURSIVE InsertSorted(_, _)
InsertSorted(x, s) ==
    IF s = <<>> THEN <<x>>
    ELSE IF StrLess(x, Head(s)) THEN <<x>> \o s
    ELSE <<Head(s)>> \o InsertSorted(x, Tail(s))

RECURSIVE Sorted(_)
Sorted(s) ==
    IF s = <<>> THEN <<>>
    ELSE InsertSorted(s[Len(s)], Sorted(SubSeq(s, 1, Len(s) - 1)))

-----------------------------------------------------------------------------
(* sys.platform and the os.path functions the add-on calls.                *)

Platforms == {"linux", "darwin", "win32"}

IsPosix == platform \in {"linux", "darwin"}

\* os.sep, and the characters os.path takes as separators
OsSep == IF IsPosix THEN "/" ELSE "\\"

OsSeps == IF IsPosix THEN {"/"} ELSE {"/", "\\"}

\* LINE_SPLITTER
LINE_SPLITTER == IF IsPosix THEN <<"\n">> ELSE <<"\r", "\n">>

\* The working directory of the host process, which os.path.abspath prepends
\* to a relative path.
Cwd == <<OsSep, "w">>

\* os.path.join(a, b), for paths without a drive
OsPathJoin(a, b) ==
    IF b # <<>> /\ b[1] \in OsSeps THEN b
    ELSE IF a # <<>> /\ a[Len(a)] \notin OsSeps THEN a \o <<OsSep>> \o b
    ELSE a \o b

\* path_join(path1, path2)
path_join(path1, path2) == StrReplace(OsPathJoin(path1, path2), "\\", "/")

\* The index of the last separator of p, 0 when it has none.
LastSepIndex(p) ==
    IF \E i \in 1..Len(p) : p[i] \in OsSeps
    THEN CHOOSE i \in 1..Len(p) :
             p[i] \in OsSeps /\ \A j \in (i + 1)..Len(p) : p[j] \notin OsSeps
    ELSE 0

\* os.path.dirname(p), for paths without a drive
OsPathDirname(p) ==
    LET head == SubSeq(p, 1, LastSepIndex(p))
        stripped == RStrip(head, OsSeps)
    IN  IF stripped = <<>> THEN head ELSE stripped

\* The components of p: the parts between separators, empty ones dropped.
RECURSIVE PathComps(_)
PathComps(p) ==
    IF p = <<>> THEN <<>>
    ELSE IF p[1] \in OsSeps THEN PathComps(Tail(p))
    ELSE LET n == IF \E i \in 1..Len(p) : p[i] \in OsSeps
                  THEN (CHOOSE i \in 1..Len(p) :
                            p[i] \in OsSeps /\ \A j \in 1..(i - 1) : p[j] \notin OsSeps) - 1
                  ELSE Len(p)
         IN  <<SubSeq(p, 1, n)>> \o PathComps(SliceFrom(p, n))

\* os.path.normpath on the components of an absolute path: "." is dropped and
\* ".." removes the component before it (nothing at the root).
RECURSIVE NormComps(_, _)
NormComps(comps, acc) ==
    IF comps = <<>> THEN acc
    ELSE IF Head(comps) = <<".">> THEN NormComps(Tail(comps), acc)
    ELSE IF Head(comps) = <<".", ".">>
         THEN NormComps(Tail(comps), SubSeq(acc, 1, Len(acc) - 1))
    ELSE NormComps(Tail(comps), Append(acc, Head(comps)))

\* The components of os.path.abspath(p)
AbsComps(p) ==
    IF p # <<>> /\ p[1] \in OsSeps THEN NormComps(PathComps(p), <<>>)
    ELSE NormComps(PathComps(Cwd \o <<OsSep>> \o p), <<>>)

\* os.path.commonprefix on two lists of components: its length
RECURSIVE CommonLen(_, _)
CommonLen(a, b) ==
    IF a = <<>> \/ b = <<>> \/ Head(a) # Head(b) THEN 0
    ELSE 1 + CommonLen(Tail(a), Tail(b))

\* os.path.relpath(path, start), path and start not empty
\* rel_list, with i the length of the common prefix of the two lists
RelList(start_list, path_list, i) ==
    [k \in 1..(Len(start_list) - i) |-> <<".", ".">>]
        \o SubSeq(path_list, i + 1, Len(path_list))

\* if not rel_list: return curdir; return join(*rel_list)
JoinRelList(rel_list) ==
    IF rel_list = <<>> THEN <<".">> ELSE StrJoin(rel_list, <<OsSep>>)

RelpathOfLists(start_list, path_list) ==
    JoinRelList(RelList(start_list, path_list, CommonLen(start_list, path_list)))

OsPathRelpath(path, start) == RelpathOfLists(AbsComps(start), AbsComps(path))

-----------------------------------------------------------------------------
(* The converter as a child process, and run_converter_pix.                *)

\* What a line of output is followed by on this platform.
Eol == LINE_SPLITTER

\* The bytes a process writes when it prints these lines.
RawOutput(lines) == Flatten([i \in 1..Len(lines) |-> lines[i] \o Eol])

ERROR_TAG == <<"<", "e", "r", "r", "o", "r", ">">>

\* run_converter_pix(args), given what the child process did: its return code
\* and the bytes it wrote to stdout.
run_converter_pix_by_retcode(proc) ==
    [retcode |-> proc.returncode,
     stdout |-> IF proc.returncode # 0 THEN <<>>
                ELSE StrSplit(proc.stdout, LINE_SPLITTER)]

run_converter_pix(proc) ==
    IF proc.returncode # 0
    THEN [retcode |-> proc.returncode, stdout |-> <<>>]
    ELSE IF Contains(proc.stdout, ERROR_TAG)
    THEN [retcode |-> -1, stdout |-> StrSplit(proc.stdout, LINE_SPLITTER)]
    ELSE [retcode |-> proc.returncode, stdout |-> StrSplit(proc.stdout, LINE_SPLITTER)]

-----------------------------------------------------------------------------
(* get_archive_listdir                                                     *)

FLAG_B == <<"-", "b">>

FLAG_LISTDIR == <<"-", "l", "i", "s", "t", "d", "i", "r">>

PREFIX_D == <<"[", "D", "]", " ">>

PREFIX_F == <<"[", "F", "]", " ">>

\* args.extend(["-b", file_path]) for each file path
BaseArgs(file_paths) ==
    Flatten([i \in 1..Len(file_paths) |-> <<FLAG_B, file_paths[i]>>])

\* The arguments get_archive_listdir passes to run_converter_pix.
ListdirArgs(file_paths, current_subpath) ==
    BaseArgs(file_paths) \o <<FLAG_LISTDIR, current_subpath>>

\* The loop over the lines of stdout, collecting dirs and files.
RECURSIVE ListdirLoop(_, _, _)
ListdirLoop(stdout, current_subpath, acc) ==
    IF stdout = <<>> THEN acc
    ELSE ListdirLoop(Tail(stdout), current_subpath,
             IF StartsWith(Head(stdout), PREFIX_D) \/ StartsWith(Head(stdout), PREFIX_F)
             THEN [acc EXCEPT ![IF StartsWith(Head(stdout), PREFIX_D)
                                THEN "dirs" ELSE "files"] =
                      Append(@, OsPathRelpath(SliceFrom(Head(stdout), 4), current_subpath))]
             ELSE acc)

\* return sorted(dirs), sorted(files)
SortedListsAsFound(got) == got

SortedLists(got) == [dirs |-> Sorted(got.dirs), files |-> Sorted(got.files)]

\* get_archive_listdir(file_paths, current_subpath), given what the child
\* process did when run with ListdirArgs(file_paths, current_subpath).
get_archive_listdir(proc, current_subpath) ==
    SortedLists(ListdirLoop(run_converter_pix(proc).stdout, current_subpath,
                            [dirs |-> <<>>, files |-> <<>>]))

-----------------------------------------------------------------------------
(* Inputs of get_archive_listdir.                                          *)

\* The longest output, in lines, a listing call is tried on.
MaxListdirLines == 3

\* Lines a converter may print: listing lines, lines that only look like
\* them, and an error line.
ListdirLinePool ==
    { <<"[", "D", "]", " ", "/", "a", "/", "b">>,
      <<"[", "D", "]", " ", "/", "a", "/", "a">>,
      <<"[", "F", "]", " ", "/", "a", "/", "m", ".", "p", "m", "g">>,
      <<"[", "F", "]", " ", "/", "a", "/", "c", ".", "p", "m", "a">>,
      <<"[", "F", "]", " ", "/", "b">>,
      <<"[", "D", "]", "/", "a", "/", "x">>,
      <<" ", "[", "D", "]", " ", "/", "a", "/", "d">>,
      <<"<", "e", "r", "r", "o", "r", ">", " ", "x">> }

ListdirSubpaths == { <<"/">>, <<"/", "a">> }

ListdirOutputs ==
    UNION { [1..n -> ListdirLinePool] : n \in 0..MaxListdirLines }

-----------------------------------------------------------------------------
(* update_converter_pix, register and CONV_PIX_WRAPPER_OT_UpdateEXE.       *)

\* 60 * 60 * 24 seconds
DAY == 60 * 60 * 24

\* How many days pass.
MaxDays == 1

\* How many times the add-on is registered (enabled) in one run of the host.
MaxRegister == 1

\* A call of update_converter_pix that has not run yet.
NewUpdate == [pc |-> "fetch", fetches |-> 0, ret |-> "none"]

\* One step of update_converter_pix: the step at u.pc either succeeds or
\* raises (outcome "ok" or "raise"); e is the file at CONVERTER_PIX_PATH and
\* t the time.  An exception raised inside the try block ends the call with
\* False.
OnRaiseEscapes(u) == [u EXCEPT !.pc = "escaped"]

\* except Exception as e: ... return False
OnRaise(u) == [u EXCEPT !.pc = "failed", !.ret = "False"]

UpdStep(u, e, outcome, t) ==
    CASE u.pc = "fetch" ->
            \* result = get(CONVERTER_PIX_URL, verify=False)
            [u |-> IF outcome = "ok" THEN [u EXCEPT !.pc = "open", !.fetches = @ + 1]
                   ELSE OnRaise([u EXCEPT !.fetches = @ + 1]),
             e |-> e]
      [] u.pc = "open" ->
            \* open(CONVERTER_PIX_PATH, "wb"): creates or truncates the file
            IF outcome = "ok"
            THEN [u |-> [u EXCEPT !.pc = "write"],
                  e |-> [exists |-> TRUE, mtime |-> t, content |-> "torn",
                         x |-> e.exists /\ e.x]]
            ELSE [u |-> OnRaise(u), e |-> e]
      [] u.pc = "write" ->
            \* f.write(result.content), and the with block closes the file
            IF outcome = "ok"
            THEN [u |-> IF IsPosix THEN [u EXCEPT !.pc = "chmod"]
                        ELSE [u EXCEPT !.pc = "done", !.ret = "True"],
                  e |-> [e EXCEPT !.content = "new", !.mtime = t]]
            ELSE [u |-> OnRaise(u), e |-> [e EXCEPT !.mtime = t]]
      [] u.pc = "chmod" ->
            \* os.chmod(CONVERTER_PIX_PATH, st.st_mode | S_IEXEC | S_IXGRP)
            IF outcome = "ok"
            THEN [u |-> [u EXCEPT !.pc = "done", !.ret = "True"],
                  e |-> [e EXCEPT !.x = TRUE]]
            ELSE [u |-> OnRaise(u), e |-> e]
      [] OTHER -> [u |-> u, e |-> e]

UpdFinished(u) == u.pc \in {"done", "failed", "escaped"}

\* update_converter_pix() run from its first step to its return; the step
\* named failAt raises if the call gets to it.
RECURSIVE UpdRun(_, _, _, _)
UpdRun(u, e, failAt, t) ==
    IF UpdFinished(u) THEN [u |-> u, e |-> e]
    ELSE LET r == UpdStep(u, e, IF u.pc = failAt THEN "raise" ELSE "ok", t)
         IN  UpdRun(r.u, r.e, failAt, t)

UpdSteps == {"fetch", "open", "write", "chmod"}

\* register()'s test: the executable is missing or more than a day old.
NeedsDownloadNoAgeTest(e, t) == ~e.exists

NeedsDownload(e, t) == ~e.exists \/ t - e.mtime > DAY

\* What register() does with the thread it creates: t.start(), and no join.
StartedThread(e, t) == [u |-> NewUpdate, e |-> e]

\* register()
Register ==
    /\ reg_log.n < MaxRegister
    /\ LET need == NeedsDownload(exe, now)
           st == StartedThread(exe, now)
       IN  /\ threads' = IF need THEN Append(threads, st.u) ELSE threads
           /\ exe' = IF need THEN st.e ELSE exe
           /\ reg_log' = [n |-> reg_log.n + 1,
                          last |-> [exists |-> exe.exists, mtime |-> exe.mtime,
                                    time |-> now,
                                    started |-> Len(threads') - Len(threads),
                                    thread_pc |-> IF need THEN st.u.pc ELSE "none"]]
    /\ UNCHANGED <<platform, selector, ld, now, upd_log, launch_saw, phase, imp, li,
                   scs_project_path, fs, reports, import_calls, last>>

\* The "update converterpix" thread takes its next step.
UpdateThreadStep ==
    \E i \in 1..Len(threads) : \E outcome \in {"ok", "raise"} :
        /\ ~UpdFinished(threads[i])
        /\ LET r == UpdStep(threads[i], exe, outcome, now)
           IN  /\ threads' = [threads EXCEPT ![i] = r.u]
               /\ exe' = r.e
        /\ UNCHANGED <<platform, selector, ld, now, reg_log, upd_log, launch_saw, phase, imp,
                       li, scs_project_path, fs, reports, import_calls, last>>

REPORT_UPDATED == <<"INFO", "ConverterPIX file updated!">>

REPORT_UPDATE_FAILED == <<"ERROR", "Problem updating ConverterPIX! Try again later.">>

\* CONV_PIX_WRAPPER_OT_UpdateEXE.execute
UpdateEXEExecute ==
    \E failAt \in UpdSteps \cup {"none"} :
        LET r == UpdRun(NewUpdate, exe, failAt, now)
        IN  /\ exe' = r.e
            /\ upd_log' = [called |-> TRUE, failAt |-> failAt, pc |-> r.u.pc,
                           ret |-> r.u.ret, fetches |-> r.u.fetches,
                           content |-> r.e.content]
            /\ reports' = IF r.u.ret = "True" THEN <<REPORT_UPDATED>>
                          ELSE <<REPORT_UPDATE_FAILED>>
            /\ UNCHANGED <<platform, selector, ld, now, threads, reg_log, launch_saw, phase,
                           imp, li, scs_project_path, fs, import_calls, last>>

\* Nothing in run_converter_pix waits for, or looks at, a running update.
LaunchAllowedAfterUpdate == \A i \in 1..Len(threads) : UpdFinished(threads[i])

LaunchAllowed == TRUE

\* run_converter_pix reaches subprocess.run(final_command, ...): the file at
\* CONVERTER_PIX_PATH is launched as it is at that moment.
LaunchConverter ==
    /\ LaunchAllowed
    /\ launch_saw' = [launched |-> TRUE, content |-> exe.content,
                      update_pcs |-> {threads[i].pc : i \in 1..Len(threads)}]
    /\ UNCHANGED <<platform, selector, ld, exe, now, threads, reg_log, upd_log, phase, imp,
                   li, scs_project_path, fs, reports, import_calls, last>>

\* A day passes.
Tick ==
    /\ now + DAY <= (MaxDays + 1) * DAY + 1
    /\ now' = now + DAY
    /\ UNCHANGED <<platform, selector, ld, exe, threads, reg_log, upd_log, launch_saw, phase, imp,
                   li, scs_project_path, fs, reports, import_calls, last>>

-----------------------------------------------------------------------------
(* The archives the converter reads, and what it prints for -listdir.      *)

\* The entries of the archives, in the order the converter prints them.
ArchiveEntries ==
    << [is_dir |-> TRUE,  path |-> <<"/", "v">>],
       [is_dir |-> FALSE, path |-> <<"/", "a", "/", "m", ".", "p", "m", "g">>],
       [is_dir |-> TRUE,  path |-> <<"/", "a">>],
       [is_dir |-> FALSE, path |-> <<"/", "a", "/", "w", ".", "p", "m", "a">>],
       [is_dir |-> TRUE,  path |-> <<"/", "a", "/", "b">>],
       [is_dir |-> FALSE, path |-> <<"/", "a", "/", "c", ".", "p", "m", "g">>],
       [is_dir |-> FALSE, path |-> <<"/", "a", "/", "e", ".", "p", "m", "a">>],
       [is_dir |-> FALSE, path |-> <<"/", "a", "/", "m", ".", "p", "m", "d">>],
       [is_dir |-> FALSE, path |-> <<"/", "a", "/", "b", "/", "x", ".", "p", "m", "a">>],
       [is_dir |-> FALSE, path |-> <<"/", "a", "/", "b", "/", "d", ".", "p", "m", "g">>] >>

\* The parent directory of an archive path, as components.
ArchiveParent(path) ==
    LET comps == StrSplit(Tail(path), <<"/">>)
    IN  SubSeq(comps, 1, Len(comps) - 1)

\* The lines the converter prints for -listdir subpath: one line for each
\* direct child, with its full path.
\* The components of a subpath of the archive tree.
SubpathComps(subpath) ==
    IF subpath = <<"/">> THEN <<>> ELSE StrSplit(Tail(subpath), <<"/">>)

RECURSIVE ListingLines(_, _)
ListingLines(entries, subpath) ==
    IF entries = <<>> THEN <<>>
    ELSE LET e == Head(entries)
         IN  (IF ArchiveParent(e.path) = SubpathComps(subpath)
              THEN <<(IF e.is_dir THEN PREFIX_D ELSE PREFIX_F) \o e.path>>
              ELSE <<>>) \o ListingLines(Tail(entries), subpath)

ERROR_LINE == <<"<", "e", "r", "r", "o", "r", ">", " ", "x">>

\* How a run of the converter may end.
ProcOutcomes == {"ok", "crash", "error"}

\* The child process of a -listdir call.
ListdirProc(outcome, subpath) ==
    [returncode |-> IF outcome = "crash" THEN 1 ELSE 0,
     stdout |-> RawOutput(IF outcome = "error" THEN <<ERROR_LINE>>
                          ELSE ListingLines(ArchiveEntries, subpath))]

\* What get_archive_listdir returns for subpath when the converter's run
\* ends in outcome.
Listing(outcome, subpath) == get_archive_listdir(ListdirProc(outcome, subpath), subpath)

-----------------------------------------------------------------------------
(* ConvPIXWrapperBrowserData                                               *)

DOTDOT == <<".", ".">>

ROOT == <<"/">>

STAR == <<"*">>

EXT_PMG == <<".", "p", "m", "g">>

EXT_PMA == <<".", "p", "m", "a">>

\* A ConvPIXWrapperBrowserData with the defaults of its properties.
NewBrowserData ==
    [multi_select |-> FALSE, file_extension |-> STAR, archive_paths |-> <<>>,
     current_subpath |-> ROOT, file_entries |-> <<>>, active_entry |-> -1]

\* entry = self.file_entries.add(), with its name and is_dir set
FileEntry(name, is_dir) == [name |-> name, is_dir |-> is_dir, do_import |-> FALSE]

\* The loop over files: those not matching the extension are skipped.
RECURSIVE ListedFiles(_, _)
ListedFiles(files, file_extension) ==
    IF files = <<>> THEN <<>>
    ELSE (IF ~EndsWith(Head(files), file_extension) /\ file_extension # STAR
          THEN <<>>
          ELSE <<FileEntry(Head(files), FALSE)>>)
         \o ListedFiles(Tail(files), file_extension)

\* update_active_entry from "remove old entries" on: the list is rebuilt from
\* l, what get_archive_listdir returns for current_subpath.
RefreshListNoFilter(bd, l) ==
    [bd EXCEPT !.file_entries =
        <<FileEntry(DOTDOT, TRUE)>>
            \o [i \in 1..Len(l.dirs) |-> FileEntry(l.dirs[i], TRUE)]
            \o [i \in 1..Len(l.files) |-> FileEntry(l.files[i], FALSE)]]

RefreshList(bd, l) ==
    [bd EXCEPT !.file_entries =
        <<FileEntry(DOTDOT, TRUE)>>
            \o [i \in 1..Len(l.dirs) |-> FileEntry(l.dirs[i], TRUE)]
            \o ListedFiles(l.files, bd.file_extension)]

\* The subpath after the parent entry is selected.
ParentSubpathStays(current_subpath) == current_subpath

ParentSubpath(current_subpath) ==
    IF current_subpath # ROOT THEN OsPathDirname(current_subpath) ELSE current_subpath

\* Whether update_active_entry, called with this active_entry, lists the
\* archive (and so runs the converter).
UpdateLists(bd) ==
    IF 0 <= bd.active_entry /\ bd.active_entry < Len(bd.file_entries)
    THEN bd.file_entries[bd.active_entry + 1].is_dir
            \/ bd.file_entries[bd.active_entry + 1].name = DOTDOT
    ELSE TRUE

\* The subpath update_active_entry lists, if it lists one.
SubpathListed(bd) ==
    IF 0 <= bd.active_entry /\ bd.active_entry < Len(bd.file_entries)
          /\ bd.file_entries[bd.active_entry + 1].is_dir
    THEN IF bd.file_entries[bd.active_entry + 1].name = DOTDOT
         THEN ParentSubpath(bd.current_subpath)
         ELSE path_join(bd.current_subpath, bd.file_entries[bd.active_entry + 1].name)
    ELSE bd.current_subpath

\* update_active_entry where a click on a file rebuilds the list too.
update_active_entry_files_refresh(bd, l) ==
    IF 0 <= bd.active_entry /\ bd.active_entry < Len(bd.file_entries)
          /\ bd.file_entries[bd.active_entry + 1].is_dir
    THEN RefreshList([bd EXCEPT !.current_subpath = SubpathListed(bd),
                                !.active_entry = -1], l)
    ELSE RefreshList(bd, l)

\* update_active_entry(self, context), with the update that setting
\* active_entry to -1 triggers: that nested call finds no proper active entry
\* and rebuilds the list.  l is what its call of get_archive_listdir returns.
update_active_entry(bd, l) ==
    IF 0 <= bd.active_entry /\ bd.active_entry < Len(bd.file_entries)
    THEN IF bd.file_entries[bd.active_entry + 1].is_dir
         THEN RefreshList([bd EXCEPT !.current_subpath = SubpathListed(bd),
                                     !.active_entry = -1], l)
         ELSE IF bd.file_entries[bd.active_entry + 1].name # DOTDOT THEN bd
         ELSE RefreshList(bd, l)
    ELSE RefreshList(bd, l)

\* is_subpath_valid(self); l is what its call of get_archive_listdir returns.
is_subpath_valid(l) == Len(l.dirs) > 0 \/ Len(l.files) > 0

-----------------------------------------------------------------------------
(* The file system: files (a path to what the file holds) and directories. *)
(* Paths are stored resolved, as the operating system resolves them.       *)

\* The absolute path with these components.
AbsPath(comps) ==
    IF comps = <<>> THEN <<OsSep>>
    ELSE Flatten([i \in 1..Len(comps) |-> <<OsSep>> \o comps[i]])

\* The path the operating system resolves an absolute path to.
NormPath(p) == AbsPath(NormComps(PathComps(p), <<>>))

\* os.path.basename(p)
OsPathBasename(p) == SliceFrom(p, LastSepIndex(p))

\* The directory a resolved path lies in.
ParentDir(p) == LET c == PathComps(p) IN AbsPath(SubSeq(c, 1, Len(c) - 1))

\* Whether list dc is a prefix of list pc.
IsPrefix(dc, pc) == Len(dc) <= Len(pc) /\ SubSeq(pc, 1, Len(dc)) = dc

\* Whether resolved path p lies in directory d or below it.
IsUnder(p, d) == IsPrefix(PathComps(d), PathComps(p))

\* os.makedirs(d, exist_ok=True)
Makedirs(f, d) ==
    LET c == NormComps(PathComps(d), <<>>)
    IN  [f EXCEPT !.dirs = @ \cup {AbsPath(SubSeq(c, 1, k)) : k \in 0..Len(c)}]

\* shutil.move of the file at resolved path s to resolved path real; into_dir
\* when the destination given is a directory and real a path in it.
MoveResolved(f, s, real, into_dir) ==
    IF into_dir /\ (real \in DOMAIN f.files \/ real \in f.dirs)
    THEN [fs |-> f, ok |-> FALSE]
    ELSE [fs |-> [f EXCEPT !.files =
                     [q \in (DOMAIN f.files \ {s}) \cup {real} |->
                          IF q = real THEN f.files[s] ELSE f.files[q]]],
          ok |-> TRUE]

\* shutil.move of the file named name at resolved path s to resolved path d
MoveNamed(f, s, d, name) ==
    MoveResolved(f, s, IF d \in f.dirs THEN NormPath(OsPathJoin(d, name)) ELSE d,
                 d \in f.dirs)

\* shutil.move(src, dst) of a file: into dst when dst is a directory (an
\* error if the name is taken there), else onto dst.
ShutilMove(f, src, dst) ==
    MoveNamed(f, NormPath(src), NormPath(dst), OsPathBasename(src))

\* os.rmdir of the directory at resolved path r
RmdirResolved(f, r) ==
    IF \/ \E q \in DOMAIN f.files : ParentDir(q) = r
       \/ \E q \in f.dirs : q # r /\ ParentDir(q) = r
    THEN [fs |-> f, ok |-> FALSE]
    ELSE [fs |-> [f EXCEPT !.dirs = @ \ {r}], ok |-> TRUE]

\* os.rmdir(d): an error unless d is empty
Rmdir(f, d) == RmdirResolved(f, NormPath(d))

\* A set of paths as a list, the deepest paths first.
RECURSIVE DeepestFirst(_)
DeepestFirst(S) ==
    IF S = {} THEN <<>>
    ELSE LET d == CHOOSE x \in S : \A y \in S : Len(PathComps(y)) <= Len(PathComps(x))
         IN  <<d>> \o DeepestFirst(S \ {d})

\* A set as a list, in some order.
RECURSIVE AnyOrder(_)
AnyOrder(S) ==
    IF S = {} THEN <<>>
    ELSE LET x == CHOOSE y \in S : TRUE IN <<x>> \o AnyOrder(S \ {x})

\* The walk over the directories roots: each with the names of its files.
WalkOf(f, roots) ==
    [i \in 1..Len(roots) |->
        [root |-> roots[i],
         files |-> AnyOrder({OsPathBasename(q) :
                       q \in {x \in DOMAIN f.files : ParentDir(x) = roots[i]}})]]

\* os.walk(top, topdown=False): each directory at or below top with the
\* names of the files in it, sub-directories before their parent.
OsWalkBottomUp(f, top) ==
    WalkOf(f, DeepestFirst({d \in f.dirs : IsUnder(d, NormPath(top))}))

-----------------------------------------------------------------------------
(* CONV_PIX_WRAPPER_OT_ListImport                                          *)

FLAG_M == <<"-", "m">>

FLAG_E == <<"-", "e">>

EXT_TOBJ == <<".", "t", "o", "b", "j">>

EXT_DDS == <<".", "d", "d", "s">>

EXT_PNG == <<".", "p", "n", "g">>

EXT_PIM == <<".", "p", "i", "m">>

PARDIR == <<".", ".">>

BASE == <<"b", "a", "s", "e">>

\* What mkdtemp() returns.
ExportPath == AbsPath(<< <<"t">> >>)

REPORT_NO_MODEL == <<"WARNING", "No active model selected, aborting import!">>

REPORT_CRASHED ==
    <<"ERROR", "ConverterPIX crashed or encountered error! Standard output returned:">>

\* The sub-paths of the animations to convert: those of the entries flagged
\* do_import, and none unless import_animations is set.
RECURSIVE FlaggedAnims(_, _)
FlaggedAnims(entries, current_subpath) ==
    IF entries = <<>> THEN <<>>
    ELSE (IF Head(entries).do_import
          THEN <<path_join(current_subpath, SliceDropLast(Head(entries).name, 4))>>
          ELSE <<>>) \o FlaggedAnims(Tail(entries), current_subpath)

AnimArchiveSubpathsAlways(op) ==
    FlaggedAnims(op.anim.file_entries, op.anim.current_subpath)

AnimArchiveSubpaths(op) ==
    IF op.import_animations
    THEN FlaggedAnims(op.anim.file_entries, op.anim.current_subpath)
    ELSE <<>>

\* The arguments execute passes to run_converter_pix.
ConvertArgs(op, export_path) ==
    LET model_file_entry_name == op.model.file_entries[op.model.active_entry + 1].name
        model_archive_subpath == path_join(op.model.current_subpath, model_file_entry_name)
    IN  BaseArgs(op.archive_paths)
            \o <<FLAG_M, SliceDropLast(model_archive_subpath, 4)>>
            \o AnimArchiveSubpaths(op)
            \o <<FLAG_E, export_path>>

\* The lines of stdout execute reports as errors.
ErrorReportsOfAll(stdout) == [i \in 1..Len(stdout) |-> <<"ERROR", stdout[i]>>]

RECURSIVE ErrorReports(_)
ErrorReports(stdout) ==
    IF stdout = <<>> THEN <<>>
    ELSE (IF Head(stdout) # <<>> THEN << <<"ERROR", Head(stdout)>> >> ELSE <<>>)
         \o ErrorReports(Tail(stdout))

\* file.endswith(".tobj") or file.endswith(".dds") or file.endswith(".png")
IsTextureFileNoPng(file) == EndsWith(file, EXT_TOBJ) \/ EndsWith(file, EXT_DDS)

IsTextureFile(file) ==
    EndsWith(file, EXT_TOBJ) \/ EndsWith(file, EXT_DDS) \/ EndsWith(file, EXT_PNG)

\* textures_project_path
TexturesProjectPath(textures_to_base, models_project_path) ==
    IF textures_to_base
    THEN OsPathJoin(OsPathJoin(models_project_path, PARDIR), BASE)
    ELSE models_project_path

\* file_dstdir
FileDstdir(file, file_subdir, op) ==
    IF IsTextureFile(file)
    THEN OsPathJoin(TexturesProjectPath(op.textures_to_base, scs_project_path), file_subdir)
    ELSE OsPathJoin(scs_project_path, file_subdir)

\* os.makedirs(file_dstdir, exist_ok=True) and shutil.move(src_path, dst_path)
MoveFile(f, root, file, file_dstdir) ==
    ShutilMove(Makedirs(f, file_dstdir), OsPathJoin(root, file),
               OsPathJoin(file_dstdir, file))

\* The loop over the files of one directory of the walk.
RECURSIVE MoveFiles(_, _, _, _, _)
MoveFiles(acc, root, files, file_subdir, op) ==
    IF files = <<>> \/ ~acc.ok THEN acc
    ELSE MoveFiles(MoveFile(acc.fs, root, Head(files),
                            FileDstdir(Head(files), file_subdir, op)),
                   root, Tail(files), file_subdir, op)

\* os.rmdir(root), reached if no move raised
RmdirAfter(moved, root) == IF moved.ok THEN Rmdir(moved.fs, root) ELSE moved

\* The loop over os.walk(export_path, topdown=False): the files of each
\* directory are moved, then the directory is removed.
RECURSIVE Distribute(_, _, _, _)
Distribute(acc, walk, export_path, op) ==
    IF walk = <<>> \/ ~acc.ok THEN acc
    ELSE Distribute(RmdirAfter(MoveFiles(acc, Head(walk).root, Head(walk).files,
                                         OsPathRelpath(Head(walk).root, export_path), op),
                               Head(walk).root),
                    Tail(walk), export_path, op)

\* The call of bpy.ops.scs_tools.import_pim that ends execute.
ImportPimCall(op) ==
    LET model_file_entry_name == op.model.file_entries[op.model.active_entry + 1].name
    IN  [file |-> SliceDropLast(model_file_entry_name, 4) \o EXT_PIM,
         directory |-> NormPath(path_join(scs_project_path,
                                          SliceFrom(op.model.current_subpath, 1)))]

\* The converter's runs of a conversion: the return code, the lines printed
\* and the files written below the export directory (directory, name).
DONE_LINE == <<"d", "o", "n", "e">>

ConvFileModel == [dir |-> << <<"a">> >>, name |-> <<"m", ".", "p", "i", "m">>]

ConvFileDds == [dir |-> << <<"a">> >>, name |-> <<"m", ".", "d", "d", "s">>]

ConvFileTobj == [dir |-> <<>>, name |-> <<"r", ".", "t", "o", "b", "j">>]

ConvFilePng == [dir |-> << <<"a">>, <<"b">> >>, name |-> <<"x", ".", "p", "n", "g">>]

ConvFileNoDot == [dir |-> << <<"a">>, <<"b">> >>, name |-> <<"x", "d", "d", "s">>]

ConvRuns ==
    { [returncode |-> 0, lines |-> <<DONE_LINE>>,
       tree |-> {ConvFileModel, ConvFileDds, ConvFileTobj}],
      [returncode |-> 0, lines |-> <<>>, tree |-> {ConvFilePng, ConvFileNoDot}],
      [returncode |-> 0, lines |-> <<ERROR_LINE, <<>>, DONE_LINE>>, tree |-> {ConvFileDds}],
      [returncode |-> 1, lines |-> <<ERROR_LINE, DONE_LINE>>, tree |-> {ConvFileModel}],
      [returncode |-> 1, lines |-> <<>>, tree |-> {}] }

\* The child process of a conversion run.
ConvProc(run) == [returncode |-> run.returncode, stdout |-> RawOutput(run.lines)]

\* Where the converter writes a file of its tree.
ExportedPath(export_path, file) ==
    NormPath(export_path \o AbsPath(file.dir \o <<file.name>>))

\* The file system after mkdtemp() and the converter's run.
AfterConverter(f, export_path, tree) ==
    [files |-> [q \in DOMAIN f.files \cup {ExportedPath(export_path, x) : x \in tree} |->
                   IF \E x \in tree : ExportedPath(export_path, x) = q
                   THEN CHOOSE x \in tree : ExportedPath(export_path, x) = q
                   ELSE f.files[q]],
     dirs |-> f.dirs \cup {NormPath(export_path)} \cup
              UNION {{NormPath(export_path \o AbsPath(SubSeq(x.dir, 1, k))) :
                          k \in 0..Len(x.dir)} : x \in tree}]

\* CONV_PIX_WRAPPER_OT_ListImport.execute after the distribution, which ended
\* in done.
ExecuteDistributed(op, done) ==
    IF ~done.ok
    THEN [result |-> "EXCEPTION", fs |-> done.fs, reports |-> <<>>, import_calls |-> <<>>]
    ELSE [result |-> "FINISHED", fs |-> done.fs, reports |-> <<>>,
          import_calls |-> IF op.only_convert THEN <<>> ELSE <<ImportPimCall(op)>>]

\* CONV_PIX_WRAPPER_OT_ListImport.execute from the return r of
\* run_converter_pix on: f is the file system when the converter has run.
ExecuteReturned(op, f, export_path, r) ==
    IF r.retcode # 0
    THEN [result |-> "CANCELLED", fs |-> f,
          reports |-> <<REPORT_CRASHED>> \o ErrorReports(r.stdout),
          import_calls |-> <<>>]
    ELSE ExecuteDistributed(op, Distribute([fs |-> f, ok |-> TRUE],
                                           OsWalkBottomUp(f, export_path),
                                           export_path, op))

\* CONV_PIX_WRAPPER_OT_ListImport.execute from the call of run_converter_pix
\* on, proc being the child process.
ExecuteAfterRun(op, f, export_path, proc) ==
    ExecuteReturned(op, f, export_path, run_converter_pix(proc))

\* A CONV_PIX_WRAPPER_OT_ListImport with the defaults of its properties.
NewListImport ==
    [archive_paths |-> <<>>, only_convert |-> FALSE, textures_to_base |-> FALSE,
     import_animations |-> FALSE, model |-> NewBrowserData, anim |-> NewBrowserData]

\* __static_last_model_subpath and __static_last_anim_subpath, as they are
\* when the dialog is invoked for the first time
STATIC_LAST_MODEL_SUBPATH == <<"/">>

STATIC_LAST_ANIM_SUBPATH == <<"/">>

\* CONV_PIX_WRAPPER_OT_ListImport.invoke; l1..l4 are what its four calls of
\* get_archive_listdir return.
ListImportInvoke(op, l1, l2, l3, l4) ==
    [op EXCEPT
        !.model = update_active_entry(
                      [@ EXCEPT !.archive_paths = op.archive_paths,
                                !.current_subpath = IF is_subpath_valid(l1)
                                                    THEN STATIC_LAST_MODEL_SUBPATH ELSE ROOT,
                                !.file_extension = EXT_PMG], l3),
        !.anim = update_active_entry(
                      [@ EXCEPT !.archive_paths = op.archive_paths,
                                !.current_subpath = IF is_subpath_valid(l2)
                                                    THEN STATIC_LAST_ANIM_SUBPATH ELSE ROOT,
                                !.file_extension = EXT_PMA,
                                !.multi_select = TRUE], l4)]

\* The archives CONV_PIX_WRAPPER_OT_Import.execute hands over: the archives
\* to use, then the currently selected files.
ImportArchivePaths(o) ==
    [i \in 1..Len(o.archives_to_use) |-> o.archives_to_use[i].path]
        \o [i \in 1..Len(o.ordered_files) |-> OsPathJoin(o.directory, o.ordered_files[i])]

\* CONV_PIX_WRAPPER_OT_Import.execute, which invokes the list-and-import
\* dialog.
ImportExecute ==
    /\ phase = "fileselect"
    /\ \E o1, o2, o3, o4 \in ProcOutcomes :
          li' = ListImportInvoke(
                    [NewListImport EXCEPT !.archive_paths = ImportArchivePaths(imp),
                                          !.only_convert = imp.only_convert,
                                          !.textures_to_base = imp.textures_to_base],
                    Listing(o1, ROOT), Listing(o2, ROOT),
                    Listing(o3, ROOT), Listing(o4, ROOT))
    /\ phase' = "dialog"
    /\ last' = [op |-> "invoke"]
    /\ UNCHANGED <<platform, selector, ld, exe, now, threads, reg_log, upd_log, launch_saw, imp,
                   scs_project_path, fs, reports, import_calls>>

\* update_active_entry runs on bd, a browser with its active_entry set; l is
\* what get_archive_listdir returns if it is called, its run of the converter
\* ending in outcome o.  The call is written to last when record is set, with
\* the subpath the update before it left if that one entered a directory.
UpdateBrowser(which, bd, o, l, record) ==
    /\ li' = [li EXCEPT ![which] = update_active_entry(bd, l)]
    /\ last' = IF record
               THEN [op |-> "update", which |-> which, subpath |-> bd.current_subpath,
                     index |-> bd.active_entry, entries |-> bd.file_entries,
                     listed |-> UpdateLists(bd), outcome |-> o, listing |-> l,
                     entered_from |->
                         IF /\ 0 <= bd.active_entry
                            /\ bd.active_entry < Len(bd.file_entries)
                            /\ bd.file_entries[bd.active_entry + 1].is_dir
                            /\ bd.file_entries[bd.active_entry + 1].name # DOTDOT
                         THEN bd.current_subpath ELSE <<>>,
                     prev_entered_from |->
                         IF last.op = "update" THEN last.entered_from ELSE <<>>]
               ELSE [op |-> "select"]
    /\ UNCHANGED <<platform, selector, ld, exe, now, threads, reg_log, upd_log, launch_saw, phase,
                   imp, scs_project_path, fs, reports, import_calls>>

\* The user clicks entry i (counted from 0) of the model or the animation
\* list: active_entry is set, and its update function runs.  The listing
\* call, if one is made, ends in one of outcomes.
SelectEntry(which, outcomes, record) ==
    /\ phase \in {"dialog", "browser"}
    /\ which = "anim" => li.import_animations
    /\ \E i \in 0..(Len(li[which].file_entries) - 1) : \E o \in outcomes :
          /\ UpdateLists([li[which] EXCEPT !.active_entry = i]) \/ o = "ok"
          /\ UpdateBrowser(which, [li[which] EXCEPT !.active_entry = i], o,
                           Listing(o, SubpathListed([li[which] EXCEPT !.active_entry = i])),
                           record)

\* A click in the archive browser on its own.
SelectBrowserEntry == SelectEntry("model", ProcOutcomes, TRUE)

\* Clicks in the lists of the dialog, where the listings succeed.
SelectModelEntry == SelectEntry("model", {"ok"}, FALSE)

SelectAnimEntry == SelectEntry("anim", {"ok"}, FALSE)

\* The user ticks or unticks the do_import box of a file of the animation
\* list.
ToggleDoImport ==
    /\ phase = "dialog"
    /\ li.import_animations /\ li.anim.multi_select
    /\ \E i \in 1..Len(li.anim.file_entries) :
          /\ ~li.anim.file_entries[i].is_dir
          /\ li' = [li EXCEPT !.anim.file_entries[i].do_import = ~@]
    /\ last' = [op |-> "edit"]
    /\ UNCHANGED <<platform, selector, ld, exe, now, threads, reg_log, upd_log, launch_saw, phase,
                   imp, scs_project_path, fs, reports, import_calls>>

\* The user ticks or unticks "Use Animations".
ToggleImportAnimations ==
    /\ phase = "dialog"
    /\ li' = [li EXCEPT !.import_animations = ~@]
    /\ last' = [op |-> "edit"]
    /\ UNCHANGED <<platform, selector, ld, exe, now, threads, reg_log, upd_log, launch_saw, phase,
                   imp, scs_project_path, fs, reports, import_calls>>

\* The end of CONV_PIX_WRAPPER_OT_ListImport.execute when the converter was
\* run with args, its run was run and r is what execute did after it.
Executed(args, run, r) ==
    /\ fs' = r.fs
    /\ reports' = r.reports
    /\ import_calls' = r.import_calls
    /\ last' = [op |-> "execute", ran |-> TRUE, result |-> r.result,
                args |-> args, run |-> run, fs_before |-> fs]

\* CONV_PIX_WRAPPER_OT_ListImport.execute
ListImportExecute ==
    /\ phase = "dialog"
    /\ phase' = "done"
    /\ IF li.model.active_entry = -1
       THEN /\ reports' = <<REPORT_NO_MODEL>>
            /\ last' = [op |-> "execute", ran |-> FALSE, result |-> "CANCELLED"]
            /\ UNCHANGED <<fs, import_calls>>
       ELSE \E run \in ConvRuns :
               Executed(ConvertArgs(li, ExportPath), run,
                        ExecuteAfterRun(li, AfterConverter(fs, ExportPath, run.tree),
                                        ExportPath, ConvProc(run)))
    /\ UNCHANGED <<platform, selector, ld, exe, now, threads, reg_log, upd_log, launch_saw, imp,
                   li, scs_project_path>>

\* The user ticks or unticks the do_import box of a file of the archive
\* browser on its own; the box is drawn when multi_select is set.
ToggleBrowserDoImport ==
    /\ phase = "browser"
    /\ li.model.multi_select
    /\ \E i \in 1..Len(li.model.file_entries) :
          /\ ~li.model.file_entries[i].is_dir
          /\ li' = [li EXCEPT !.model.file_entries[i].do_import = ~@]
    /\ last' = [op |-> "edit"]
    /\ UNCHANGED <<platform, selector, ld, exe, now, threads, reg_log, upd_log, launch_saw, phase,
                   imp, scs_project_path, fs, reports, import_calls>>

\* update_active_entry called as invoke calls it, not through a click.
DirectUpdate ==
    /\ phase = "browser"
    /\ \E o \in ProcOutcomes :
          /\ UpdateLists(li.model) \/ o = "ok"
          /\ UpdateBrowser("model", li.model, o, Listing(o, SubpathListed(li.model)), TRUE)

\* get_archive_listdir is called on the inputs in ld.
ListdirCall ==
    /\ ~ld.done
    /\ LET proc == [returncode |-> ld.returncode, stdout |-> RawOutput(ld.lines)]
           l == get_archive_listdir(proc, ld.subpath)
       IN  ld' = [ld EXCEPT !.done = TRUE,
                            !.stdout = run_converter_pix(proc).stdout,
                            !.dirs = l.dirs, !.files = l.files]
    /\ UNCHANGED <<platform, selector, exe, now, threads, reg_log, upd_log, launch_saw, phase, imp,
                   li, scs_project_path, fs, reports, import_calls, last>>

-----------------------------------------------------------------------------
(* Initial states and specifications.                                      *)

ARCHIVE_X == <<"x", ".", "s", "c", "s">>

ARCHIVE_D == <<"d", ".", "s", "c", "s">>

\* The directory shown by the file selector.
ArchiveDirectory == AbsPath(<< <<"s">> >>) \o <<OsSep>>

ListdirIdle == ld = [done |-> FALSE]

UpdateIdle ==
    /\ exe = [exists |-> TRUE, mtime |-> 0, content |-> "old", x |-> TRUE]
    /\ now = 0
    /\ threads = <<>>
    /\ reg_log = [n |-> 0]
    /\ upd_log = [called |-> FALSE]
    /\ launch_saw = [launched |-> FALSE]

\* The project directory as it is before a conversion: it holds an older
\* copy of a model.
ProjectPath == AbsPath(<< <<"p">>, <<"q">> >>)

OldModelPath == AbsPath(<< <<"p">>, <<"q">>, <<"a">>, <<"m", ".", "p", "i", "m">> >>)

InitialFs ==
    [files |-> [q \in {OldModelPath} |-> [name |-> <<"m", ".", "p", "i", "m">>, old |-> TRUE]],
     dirs |-> {AbsPath(<<>>), AbsPath(<< <<"p">> >>), ProjectPath,
               AbsPath(<< <<"p">>, <<"q">>, <<"a">> >>)}]

\* The file selector when it opens: no file is selected.  order holds the
\* selected file names in the order the user selected them, checked says
\* that check() has run since the selection last changed, and in_step that
\* so far it has run after every single change of the selection.
NoSelection == [order |-> <<>>, checked |-> TRUE, in_step |-> TRUE]

NewImport ==
    [directory |-> ArchiveDirectory, ordered_files |-> <<>>, archives_to_use |-> <<>>,
     only_convert |-> FALSE, textures_to_base |-> FALSE]

DialogIdle ==
    /\ phase = "none"
    /\ imp = NewImport
    /\ li = NewListImport
    /\ scs_project_path = ProjectPath
    /\ fs = InitialFs
    /\ reports = <<>>
    /\ import_calls = <<>>
    /\ last = [op |-> "none"]
    /\ selector = NoSelection

-----------------------------------------------------------------------------
(* CONV_PIX_WRAPPER_OT_Import.check, and the file selector that calls it.  *)

ARCHIVE_B == <<"b", ".", "s", "c", "s">>

\* The archives in the directory the file selector shows.
SelectableFiles == {ARCHIVE_X, ARCHIVE_D, ARCHIVE_B}

\* The names of a list, as a set.
NamesOf(s) == {s[i] : i \in 1..Len(s)}

\* x in s, for a list s
InList(x, s) == \E i \in 1..Len(s) : s[i] = x

\* The orders in which a for loop can visit the set S: the iteration order
\* of a Python set of str is not fixed.
SetOrders(S) ==
    {v \in [1..Cardinality(S) -> S] :
        \A i, j \in 1..Cardinality(S) : i # j => v[i] # v[j]}

\* The names of list s that are in the set S, in the order of s.
RECURSIVE NamesKept(_, _)
NamesKept(s, S) ==
    IF s = <<>> THEN <<>>
    ELSE (IF Head(s) \in S THEN <<Head(s)>> ELSE <<>>) \o NamesKept(Tail(s), S)

\* The orders in which the first loop of check() can visit
\* current_file_names.  The loop skips the names that are in ordered_files,
\* so where it meets them makes no difference: they are put first here, and
\* the other names follow in every order.
VisitOrders(ordered_files, current_file_names) ==
    {NamesKept(ordered_files, current_file_names) \o v :
        v \in SetOrders(current_file_names \ NamesOf(ordered_files))}

\* for file_name in current_file_names: the names not yet in ordered_files
\* are appended; visit is current_file_names in the order the loop visits it.
RECURSIVE AppendSelected(_, _)
AppendSelected(ordered_files, visit) ==
    IF visit = <<>> THEN ordered_files
    ELSE AppendSelected(IF InList(Head(visit), ordered_files) THEN ordered_files
                        ELSE Append(ordered_files, Head(visit)),
                        Tail(visit))

\* s.remove(x), x in s: the first x is removed
ListRemove(s, x) ==
    SubSeq(s, 1, StrFind(s, <<x>>, 1) - 1) \o SubSeq(s, StrFind(s, <<x>>, 1) + 1, Len(s))

\* for file_name in self.ordered_files.copy(): the names that are not
\* selected any more are removed.
RECURSIVE RemoveUnselected(_, _, _)
RemoveUnselected(ordered_files, copy, current_file_names) ==
    IF copy = <<>> THEN ordered_files
    ELSE RemoveUnselected(IF Head(copy) \notin current_file_names
                          THEN ListRemove(ordered_files, Head(copy))
                          ELSE ordered_files,
                          Tail(copy), current_file_names)

\* check() up to "handle different actions": ordered_files is updated.
UpdateOrderedFilesNoRemove(ordered_files, visit) == AppendSelected(ordered_files, visit)

UpdateOrderedFiles(ordered_files, visit) ==
    RemoveUnselected(AppendSelected(ordered_files, visit),
                     AppendSelected(ordered_files, visit), NamesOf(visit))

\* curr_archives_to_use = [archive.path for archive in self.archives_to_use]
ArchivePaths(archives_to_use) ==
    [i \in 1..Len(archives_to_use) |-> archives_to_use[i].path]

\* new_archive_to_use = self.archives_to_use.add(), with its path set
ArchiveToUse(path) == [path |-> path, selected |-> FALSE]

\* The loop of the archives_to_use_mode branch.
RECURSIVE AddArchivesNoTest(_, _, _, _)
AddArchivesNoTest(archives_to_use, curr_archives_to_use, directory, ordered_files) ==
    IF ordered_files = <<>> THEN archives_to_use
    ELSE AddArchivesNoTest(
             Append(archives_to_use, ArchiveToUse(path_join(directory, Head(ordered_files)))),
             curr_archives_to_use, directory, Tail(ordered_files))

RECURSIVE AddArchives(_, _, _, _)
AddArchives(archives_to_use, curr_archives_to_use, directory, ordered_files) ==
    IF ordered_files = <<>> THEN archives_to_use
    ELSE AddArchives(
             IF InList(path_join(directory, Head(ordered_files)), curr_archives_to_use)
             THEN archives_to_use
             ELSE Append(archives_to_use,
                         ArchiveToUse(path_join(directory, Head(ordered_files)))),
             curr_archives_to_use, directory, Tail(ordered_files))

\* self.archives_to_use.remove(i), i counted from 0
CollectionRemove(c, i) == SubSeq(c, 1, i) \o SubSeq(c, i + 2, Len(c))

\* self.archives_to_use.move(i, j), i and j counted from 0
CollectionMove(c, i, j) ==
    SubSeq(CollectionRemove(c, i), 1, j) \o <<c[i + 1]>>
        \o SubSeq(CollectionRemove(c, i), j + 1, Len(c) - 1)

\* The loop of the delete_selected_archives_mode branch, from index i on.
RECURSIVE DeleteSelected(_, _)
DeleteSelected(archives_to_use, i) ==
    IF i >= Len(archives_to_use) THEN archives_to_use
    ELSE IF archives_to_use[i + 1].selected
    THEN DeleteSelected(CollectionRemove(archives_to_use, i), i)
    ELSE DeleteSelected(archives_to_use, i + 1)

\* The loop of the move_up_selected_archives_mode branch, from index i on.
RECURSIVE MoveUpSelected(_, _)
MoveUpSelected(archives_to_use, i) ==
    IF i >= Len(archives_to_use) THEN archives_to_use
    ELSE MoveUpSelected(IF /\ archives_to_use[i + 1].selected
                           /\ i - 1 >= 0
                           /\ ~archives_to_use[i].selected
                        THEN CollectionMove(archives_to_use, i, i - 1)
                        ELSE archives_to_use,
                        i + 1)

\* The loop of the move_down_selected_archives_mode branch, from index i
\* down.
RECURSIVE MoveDownSelected(_, _)
MoveDownSelected(archives_to_use, i) ==
    IF i < 0 THEN archives_to_use
    ELSE MoveDownSelected(IF /\ archives_to_use[i + 1].selected
                             /\ i + 1 < Len(archives_to_use)
                             /\ ~archives_to_use[i + 2].selected
                          THEN CollectionMove(archives_to_use, i, i + 1)
                          ELSE archives_to_use,
                          i - 1)

\* The mode properties of the operator.  Each is set by a button and reset
\* by the check() the button triggers, so at most one is set when check()
\* runs; "none" stands for none of them set.
MODE_NONE == "none"

MODE_PROJECT_PATH == "scs_project_path_mode"

MODE_ADD == "archives_to_use_mode"

MODE_DELETE == "delete_selected_archives_mode"

MODE_UP == "move_up_selected_archives_mode"

MODE_DOWN == "move_down_selected_archives_mode"

\* The if/elif chain of check() on the archives to use.
CheckModes(op, mode) ==
    [op EXCEPT !.archives_to_use =
        CASE mode = MODE_ADD ->
                 AddArchives(@, ArchivePaths(@), op.directory, op.ordered_files)
          [] mode = MODE_DELETE -> DeleteSelected(@, 0)
          [] mode = MODE_UP -> MoveUpSelected(@, 0)
          [] mode = MODE_DOWN -> MoveDownSelected(@, Len(@) - 1)
          [] OTHER -> @]

\* check(self, context) with the mode property mode set; visit is the
\* selected file names in the order the first loop visits them.
check(op, mode, visit) ==
    CheckModes([op EXCEPT !.ordered_files = UpdateOrderedFiles(@, visit)], mode)

\* self.filepath: the directory with the name of the file selected last
FilePath(op, order) ==
    OsPathJoin(op.directory, IF order = <<>> THEN <<>> ELSE order[Len(order)])

\* check() runs with the mode property mode set on op, the operator as the
\* file selector has filled it in.
CheckCalled(op, mode) ==
    /\ phase = "fileselect"
    /\ \E visit \in VisitOrders(op.ordered_files, NamesOf(selector.order)) :
          imp' = check(op, mode, visit)
    /\ scs_project_path' = IF mode = MODE_PROJECT_PATH
                           THEN OsPathDirname(FilePath(op, selector.order))
                           ELSE scs_project_path
    /\ selector' = [selector EXCEPT !.checked = TRUE]
    /\ last' = [op |-> "check", mode |-> mode]
    /\ UNCHANGED <<platform, ld, exe, now, threads, reg_log, upd_log, launch_saw, phase,
                   li, fs, reports, import_calls>>

\* The user selects a file in the file selector, or deselects a selected
\* one.
ToggleFile ==
    /\ phase = "fileselect"
    /\ \E f \in SelectableFiles :
          selector' = [order |-> IF InList(f, selector.order)
                                 THEN ListRemove(selector.order, f)
                                 ELSE Append(selector.order, f),
                       checked |-> FALSE,
                       in_step |-> selector.in_step /\ selector.checked]
    /\ last' = [op |-> "select"]
    /\ UNCHANGED <<platform, ld, exe, now, threads, reg_log, upd_log, launch_saw, phase,
                   imp, li, scs_project_path, fs, reports, import_calls>>

\* The file selector calls check() of the operator.
SelectorCheck == CheckCalled(imp, MODE_NONE)

\* The user ticks or unticks an archive of the list; the file selector calls
\* check() after the change.
TickArchive ==
    \E i \in 1..Len(imp.archives_to_use) :
        CheckCalled([imp EXCEPT !.archives_to_use[i].selected = ~@], MODE_NONE)

\* is_any_archive_selected of draw(): the Remove, Up and Down buttons are
\* drawn.
IsAnyArchiveSelected ==
    \E i \in 1..Len(imp.archives_to_use) : imp.archives_to_use[i].selected

\* "Add Archives to List"
AddArchivesToList == CheckCalled(imp, MODE_ADD)

\* "Remove"
DeleteSelectedArchives == IsAnyArchiveSelected /\ CheckCalled(imp, MODE_DELETE)

\* "Up"
MoveUpSelectedArchives == IsAnyArchiveSelected /\ CheckCalled(imp, MODE_UP)

\* "Down"
MoveDownSelectedArchives == IsAnyArchiveSelected /\ CheckCalled(imp, MODE_DOWN)

\* "Set Current Dir as Project Base", drawn if only_convert is set
SetProjectBase == imp.only_convert /\ CheckCalled(imp, MODE_PROJECT_PATH)

\* The file selector with some archives listed and some files selected.
InitDialog ==
    /\ platform \in Platforms
    /\ ListdirIdle
    /\ UpdateIdle
    /\ phase = "fileselect"
    /\ \E sel \in { [use |-> <<>>, files |-> <<ARCHIVE_X>>],
                    [use |-> <<ARCHIVE_D>>, files |-> <<ARCHIVE_X, ARCHIVE_D>>] } :
          \E oc \in BOOLEAN :
              /\ imp = [NewImport EXCEPT
                        !.ordered_files = sel.files,
                        !.archives_to_use =
                            [i \in 1..Len(sel.use) |->
                                [path |-> path_join(ArchiveDirectory, sel.use[i]),
                                 selected |-> FALSE]],
                        !.only_convert = oc,
                        !.textures_to_base = ~oc]
              /\ selector = [order |-> sel.files, checked |-> TRUE, in_step |-> TRUE]
    /\ li = NewListImport
    /\ scs_project_path = ProjectPath
    /\ fs = InitialFs
    /\ reports = <<>>
    /\ import_calls = <<>>
    /\ last = [op |-> "none"]

Next ==
    \/ ImportExecute
    \/ SelectModelEntry
    \/ SelectAnimEntry
    \/ ToggleDoImport
    \/ ToggleImportAnimations
    \/ ListImportExecute

Spec == InitDialog /\ [][Next]_vars

\* One archive browser on its own.
InitBrowser ==
    /\ platform \in Platforms
    /\ ListdirIdle
    /\ UpdateIdle
    /\ phase = "browser"
    /\ imp = NewImport
    /\ \E ext \in {STAR, EXT_PMG, EXT_PMA} : \E ms \in BOOLEAN :
          li = [NewListImport EXCEPT
                   !.model.file_extension = ext,
                   !.model.multi_select = ms,
                   !.model.archive_paths = <<path_join(ArchiveDirectory, ARCHIVE_X)>>]
    /\ scs_project_path = ProjectPath
    /\ fs = InitialFs
    /\ reports = <<>>
    /\ import_calls = <<>>
    /\ last = [op |-> "none"]
    /\ selector = NoSelection

NextBrowser == DirectUpdate \/ SelectBrowserEntry \/ ToggleBrowserDoImport

SpecBrowser == InitBrowser /\ [][NextBrowser]_vars

\* The add-on is enabled, the update button is pressed and the converter is
\* run while update threads run.  "darwin" takes the branches "linux" takes
\* in update_converter_pix, so one posix platform stands for both.
InitUpdate ==
    /\ platform \in {"linux", "win32"}
    /\ ListdirIdle
    /\ DialogIdle
    /\ exe \in {[exists |-> FALSE, mtime |-> 0, content |-> "none", x |-> FALSE]}
               \cup {[exists |-> TRUE, mtime |-> m, content |-> "old", x |-> TRUE] :
                        m \in {0, 1, DAY + 2}}
    /\ now = DAY + 1
    /\ threads = <<>>
    /\ reg_log = [n |-> 0]
    /\ upd_log = [called |-> FALSE]
    /\ launch_saw = [launched |-> FALSE]

NextUpdate ==
    \/ Register
    \/ UpdateThreadStep
    \/ UpdateEXEExecute
    \/ LaunchConverter
    \/ Tick

SpecUpdate == InitUpdate /\ [][NextUpdate]_vars

\* get_archive_listdir on every output of up to MaxListdirLines lines.
InitListdir ==
    /\ platform \in Platforms
    /\ UpdateIdle
    /\ DialogIdle
    /\ \E rc \in {0, 1} : \E lines \in ListdirOutputs : \E sub \in ListdirSubpaths :
          ld = [done |-> FALSE, returncode |-> rc, lines |-> lines, subpath |-> sub,
                stdout |-> <<>>, dirs |-> <<>>, files |-> <<>>]

NextListdir == ListdirCall

SpecListdir == InitListdir /\ [][NextListdir]_vars

\* The file selector is open: files are selected and deselected, and the
\* buttons of the operator are pressed.  "darwin" joins paths as "linux"
\* does, so one posix platform stands for both.
InitFileSelect ==
    /\ platform \in {"linux", "win32"}
    /\ ListdirIdle
    /\ UpdateIdle
    /\ phase = "fileselect"
    /\ imp = [NewImport EXCEPT !.only_convert = TRUE]
    /\ li = NewListImport
    /\ scs_project_path = ProjectPath
    /\ fs = InitialFs
    /\ reports = <<>>
    /\ import_calls = <<>>
    /\ last = [op |-> "none"]
    /\ selector = NoSelection

NextFileSelect ==
    \/ ToggleFile
    \/ SelectorCheck
    \/ TickArchive
    \/ AddArchivesToList
    \/ DeleteSelectedArchives
    \/ MoveUpSelectedArchives
    \/ MoveDownSelectedArchives
    \/ SetProjectBase

SpecFileSelect == InitFileSelect /\ [][NextFileSelect]_vars

-----------------------------------------------------------------------------
(* The claims.                                                             *)

\* Whether the last handler was a run of ListImport.execute that ran the
\* converter.
RanConverter == last.op = "execute" /\ last.ran

\* Whether the converter's run failed: it exited with a non-zero return code
\* or its output holds "<error>".
RunFailed(run) ==
    \/ run.returncode # 0
    \/ \E i \in 1..Len(run.lines) : \E k \in 1..(Len(run.lines[i]) - 6) :
          SubSeq(run.lines[i], k, k + 6) = <<"<", "e", "r", "r", "o", "r", ">">>

\* The files of file system f that are not below the export directory.
OutsideExport(f) ==
    {<<q, f.files[q]>> : q \in {x \in DOMAIN f.files : ~IsUnder(x, ExportPath)}}

\* C1: when the converter exits with a non-zero return code or prints
\* "<error>", ListImport.execute returns CANCELLED, no file is moved into the
\* project or textures folders (the files outside the export directory are
\* those from before the run), and import_pim is not called.
C1_FailedRunAborts ==
    (RanConverter /\ RunFailed(last.run)) =>
        /\ last.result = "CANCELLED"
        /\ OutsideExport(fs) = OutsideExport(last.fs_before)
        /\ \A x \in last.run.tree : \E q \in DOMAIN fs.files :
              fs.files[q] = x /\ IsUnder(q, ExportPath)
        /\ import_calls = <<>>

\* The converter printed "<error>", exited with 0 and had written a file,
\* and the operator was set to import the model.
C1_Witness ==
    /\ RanConverter
    /\ last.run.returncode = 0
    /\ RunFailed(last.run)
    /\ last.run.tree # {}
    /\ ~li.only_convert
    /\ last.result = "CANCELLED"

\* The reports of the lines of a run, the empty lines left out, in order.
RECURSIVE LineReports(_)
LineReports(lines) ==
    IF lines = <<>> THEN <<>>
    ELSE IF Head(lines) = <<>> THEN LineReports(Tail(lines))
    ELSE << <<"ERROR", Head(lines)>> >> \o LineReports(Tail(lines))

\* C2 as the specification states it: in both failure cases every non-empty
\* line the converter wrote is reported as an ERROR message (one of the
\* reports that follow the general message).
C2_FailedRunReportsEveryLine ==
    (RanConverter /\ RunFailed(last.run)) =>
        \A i \in 1..Len(last.run.lines) :
            last.run.lines[i] # <<>> =>
                \E k \in 2..Len(reports) : reports[k] = <<"ERROR", last.run.lines[i]>>

\* C2 as the code has it: after the general message, the non-empty lines of
\* the output are reported, in order, when the converter exited with 0 and
\* printed "<error>"; when it exited with a non-zero return code only the
\* general message is reported, whatever it printed.
C2_ErrorLinesReportedOnlyForZeroExit ==
    (RanConverter /\ RunFailed(last.run)) =>
        reports =
            << <<"ERROR",
                 "ConverterPIX crashed or encountered error! Standard output returned:">> >>
            \o (IF last.run.returncode = 0 THEN LineReports(last.run.lines) ELSE <<>>)

\* The converter exited with a non-zero return code after printing lines,
\* and one message was reported.
C2_Witness ==
    /\ RanConverter
    /\ last.run.returncode # 0
    /\ last.run.lines # <<>>
    /\ Len(reports) = 1

IsSortedList(s) == \A i \in 1..(Len(s) - 1) : ~StrLess(s[i + 1], s[i])

\* How many times x occurs in the list s.
Occurrences(s, x) == Cardinality({i \in 1..Len(s) : s[i] = x})

\* The lines of stdout that start with prefix.
LinesWith(stdout, prefix) == {i \in 1..Len(stdout) : StartsWith(stdout[i], prefix)}

\* Whether list holds exactly the payloads of the lines of stdout that start
\* with prefix, each made relative to subpath, as often as they occur.
HoldsPayloads(list, stdout, prefix, subpath) ==
    /\ Len(list) = Cardinality(LinesWith(stdout, prefix))
    /\ \A i \in LinesWith(stdout, prefix) :
          LET x == OsPathRelpath(SliceFrom(stdout[i], 4), subpath)
          IN  Occurrences(list, x) =
                  Cardinality({k \in LinesWith(stdout, prefix) :
                      OsPathRelpath(SliceFrom(stdout[k], 4), subpath) = x})

\* C3: get_archive_listdir returns the sorted list of the payloads, relative
\* to the subpath, of the lines that run_converter_pix returned and that start
\* with "[D] " as dirs, and the same for "[F] " as files; no other line adds
\* to either list and no line adds to both.
C3_ListdirSplitsLinesByPrefix ==
    ld.done =>
        /\ IsSortedList(ld.dirs)
        /\ IsSortedList(ld.files)
        /\ HoldsPayloads(ld.dirs, ld.stdout, <<"[", "D", "]", " ">>, ld.subpath)
        /\ HoldsPayloads(ld.files, ld.stdout, <<"[", "F", "]", " ">>, ld.subpath)
        /\ LinesWith(ld.stdout, <<"[", "D", "]", " ">>)
               \cap LinesWith(ld.stdout, <<"[", "F", "]", " ">>) = {}

\* A listing with a directory line, a file line and a line that only looks
\* like a directory line.
C3_Witness ==
    /\ ld.done
    /\ Len(ld.dirs) = 1
    /\ Len(ld.files) = 1
    /\ \E i \in 1..Len(ld.stdout) : StartsWith(ld.stdout[i], <<"[", "D", "]", "/">>)

\* p joined with name by a forward slash.
JoinedSubpath(p, name) ==
    IF p[Len(p)] = "/" THEN p \o name ELSE p \o <<"/">> \o name

\* The entries of a list that are flagged do_import.
RECURSIVE FlaggedEntries(_)
FlaggedEntries(entries) ==
    IF entries = <<>> THEN <<>>
    ELSE IF Head(entries).do_import THEN <<Head(entries)>> \o FlaggedEntries(Tail(entries))
    ELSE FlaggedEntries(Tail(entries))

\* s without its last four characters.
WithoutExtension(s) == SubSeq(s, 1, Len(s) - 4)

\* The archives of the file selector: the archives to use in list order,
\* then the selected files, in selection order, in the selector's directory.
ArchiveList ==
    [k \in 1..(Len(imp.archives_to_use) + Len(imp.ordered_files)) |->
        IF k <= Len(imp.archives_to_use) THEN imp.archives_to_use[k].path
        ELSE imp.directory \o imp.ordered_files[k - Len(imp.archives_to_use)]]

\* C4: the command of a conversion is "-b" and an archive for each archive of
\* the file selector in list order, then "-m" and the model's subpath without
\* its extension, then the subpath without extension of each animation
\* flagged do_import if import_animations is on and none otherwise, then
\* "-e" and the export directory.
C4_ConversionCommand ==
    RanConverter =>
        last.args =
            [k \in 1..(2 * Len(ArchiveList)) |->
                IF k % 2 = 1 THEN <<"-", "b">> ELSE ArchiveList[k \div 2]]
            \o << <<"-", "m">>,
                  WithoutExtension(JoinedSubpath(li.model.current_subpath,
                      li.model.file_entries[li.model.active_entry + 1].name)) >>
            \o (IF li.import_animations
                THEN [k \in 1..Len(FlaggedEntries(li.anim.file_entries)) |->
                         WithoutExtension(JoinedSubpath(li.anim.current_subpath,
                             FlaggedEntries(li.anim.file_entries)[k].name))]
                ELSE <<>>)
            \o << <<"-", "e">>, ExportPath >>

\* A conversion with two archives, one of them in the archives to use, and
\* two flagged animations, on Windows.
C4_Witness ==
    /\ RanConverter
    /\ platform = "win32"
    /\ Len(imp.archives_to_use) = 1
    /\ Len(imp.ordered_files) = 2
    /\ li.import_animations
    /\ Len(FlaggedEntries(li.anim.file_entries)) = 2
    /\ Len(last.args) = 12

\* Whether a file name ends in .tobj, .dds or .png.
HasTextureExtension(name) ==
    \/ Len(name) >= 5 /\ SubSeq(name, Len(name) - 4, Len(name)) = <<".", "t", "o", "b", "j">>
    \/ Len(name) >= 4 /\ SubSeq(name, Len(name) - 3, Len(name)) = <<".", "d", "d", "s">>
    \/ Len(name) >= 4 /\ SubSeq(name, Len(name) - 3, Len(name)) = <<".", "p", "n", "g">>

\* Where file x of the converter's tree belongs: below the textures path
\* (the directory "base" next to the project path if textures_to_base is
\* set) or below the project path, in its sub-directory.
Destination(x) ==
    AbsPath((IF HasTextureExtension(x.name) /\ li.textures_to_base
             THEN << <<"p">>, <<"b", "a", "s", "e">> >>
             ELSE << <<"p">>, <<"q">> >>) \o x.dir \o <<x.name>>)

\* C5: after a successful conversion each file the converter wrote is at one
\* place, its destination, and nowhere else; the files that were there before
\* and are not replaced are as they were; and neither the export directory
\* nor anything below it is left.
C5_FilesDistributed ==
    (RanConverter /\ ~RunFailed(last.run)) =>
        /\ last.result = "FINISHED"
        /\ \A x \in last.run.tree :
              {q \in DOMAIN fs.files : fs.files[q] = x} = {Destination(x)}
        /\ DOMAIN fs.files =
              DOMAIN last.fs_before.files \cup {Destination(x) : x \in last.run.tree}
        /\ \A q \in DOMAIN last.fs_before.files :
              fs.files[q] # last.fs_before.files[q] =>
                  \E x \in last.run.tree : Destination(x) = q
        /\ \A q \in DOMAIN fs.files \cup fs.dirs : ~IsUnder(q, ExportPath)

\* A conversion that wrote a .png and a file without extension two
\* directories down, with textures_to_base set: the .png is below "base".
C5_Witness ==
    /\ RanConverter
    /\ ~RunFailed(last.run)
    /\ li.textures_to_base
    /\ \E x \in last.run.tree :
          /\ x.name = <<"x", ".", "p", "n", "g">>
          /\ Len(x.dir) = 2
          /\ Destination(x) \in DOMAIN fs.files
          /\ IsUnder(Destination(x), AbsPath(<< <<"p">>, <<"b", "a", "s", "e">> >>))
    /\ fs.dirs \cap {ExportPath} = {}

\* C6: register() starts a download exactly when the executable is missing
\* or was modified more than 24 hours ago, starts at most one thread, and
\* returns before that thread has taken a step.
C6_RegisterStartsDownloadIfStale ==
    /\ Len(threads) <= reg_log.n
    /\ reg_log.n >= 1 =>
          LET r == reg_log.last
          IN  /\ r.started \in {0, 1}
              /\ r.started = 1 <=> (~r.exists \/ r.time - r.mtime > 24 * 60 * 60)
              /\ r.started = 1 => r.thread_pc = "fetch"

\* register() has returned after starting a download for a stale executable,
\* and the download has not finished.
C6_Witness ==
    /\ reg_log.n = 1
    /\ reg_log.last.started = 1
    /\ reg_log.last.exists
    /\ Len(threads) = 1
    /\ threads[1].pc = "write"

\* C7: update_converter_pix returns False exactly when one of its steps
\* raised and True otherwise, no exception leaves it, it fetches at most once,
\* and the update operator reports the generic error exactly when it returned
\* False.
C7_UpdateFailuresAreCaught ==
    /\ \A i \in 1..Len(threads) :
          /\ threads[i].pc # "escaped"
          /\ threads[i].fetches <= 1
          /\ threads[i].pc = "failed" <=> threads[i].ret = "False"
          /\ threads[i].pc = "done" <=> threads[i].ret = "True"
    /\ upd_log.called =>
          LET raised == \/ upd_log.failAt \in {"fetch", "open", "write"}
                        \/ upd_log.failAt = "chmod" /\ platform \in {"linux", "darwin"}
          IN  /\ upd_log.pc \in {"done", "failed"}
              /\ upd_log.ret = "False" <=> raised
              /\ upd_log.ret = "True" <=> ~raised
              /\ upd_log.ret = "True" => upd_log.content = "new"
              /\ upd_log.fetches <= 1
              /\ upd_log.ret = "False" <=>
                     reports = << <<"ERROR", "Problem updating ConverterPIX! Try again later.">> >>
              /\ upd_log.ret = "True" <=>
                     reports = << <<"INFO", "ConverterPIX file updated!">> >>

\* The update operator ran and writing the executable raised.
C7_Witness ==
    /\ upd_log.called
    /\ upd_log.failAt = "write"
    /\ upd_log.ret = "False"
    /\ upd_log.content = "torn"

\* C8: nothing orders the download and the converter's runs: while an update
\* thread has the executable open for writing, or has written it and not yet
\* made it executable, run_converter_pix can launch it.
C8_LaunchNotOrderedAfterUpdate ==
    \A i \in 1..Len(threads) :
        threads[i].pc \in {"write", "chmod"} => ENABLED LaunchConverter

\* The converter was launched while the update thread had truncated the
\* executable and not yet written it.
C8_Witness ==
    /\ launch_saw.launched
    /\ launch_saw.content = "torn"
    /\ "write" \in launch_saw.update_pcs

\* Whether the last handler was a click on a directory entry other than
\* "..", and whether it was a click on "..".
ClickedEntry ==
    /\ last.op = "update"
    /\ 0 <= last.index
    /\ last.index < Len(last.entries)

ClickedDirectory ==
    /\ ClickedEntry
    /\ last.entries[last.index + 1].is_dir
    /\ last.entries[last.index + 1].name # <<".", ".">>

ClickedParent ==
    /\ ClickedEntry
    /\ last.entries[last.index + 1].is_dir
    /\ last.entries[last.index + 1].name = <<".", ".">>

\* The names of the children of subpath in the archives: its directories or
\* its files.
ChildNames(subpath, is_dir) ==
    {SliceFrom(ArchiveEntries[i].path, Len(JoinedSubpath(subpath, <<>>))) :
        i \in {k \in 1..Len(ArchiveEntries) :
                  /\ ArchiveEntries[k].is_dir = is_dir
                  /\ ArchiveParent(ArchiveEntries[k].path) = SubpathComps(subpath)}}

\* The elements of a list.
Elements(s) == {s[i] : i \in 1..Len(s)}

\* The files of a list that end with the extension ext, all if ext is "*".
RECURSIVE MatchingFiles(_, _)
MatchingFiles(files, ext) ==
    IF files = <<>> THEN <<>>
    ELSE IF \/ ext = <<"*">>
            \/ /\ Len(ext) <= Len(Head(files))
               /\ SubSeq(Head(files), Len(Head(files)) - Len(ext) + 1, Len(Head(files))) = ext
    THEN <<Head(files)>> \o MatchingFiles(Tail(files), ext)
    ELSE MatchingFiles(Tail(files), ext)

\* Whether the model list is ".." first, then the directories of listing l,
\* sorted, then its files that match the extension, sorted; and, the
\* converter's run having succeeded, whether these are the directories and
\* the files of the current subpath.
ListRefreshed ==
    /\ li.model.file_entries =
          << [name |-> <<".", ".">>, is_dir |-> TRUE, do_import |-> FALSE] >>
          \o [i \in 1..Len(last.listing.dirs) |->
                 [name |-> last.listing.dirs[i], is_dir |-> TRUE, do_import |-> FALSE]]
          \o [i \in 1..Len(MatchingFiles(last.listing.files, li.model.file_extension)) |->
                 [name |-> MatchingFiles(last.listing.files, li.model.file_extension)[i],
                  is_dir |-> FALSE, do_import |-> FALSE]]
    /\ IsSortedList(last.listing.dirs)
    /\ IsSortedList(last.listing.files)
    /\ last.outcome = "ok" =>
          /\ Elements(last.listing.dirs) = ChildNames(li.model.current_subpath, TRUE)
          /\ Len(last.listing.dirs) = Cardinality(ChildNames(li.model.current_subpath, TRUE))
          /\ Elements(last.listing.files) = ChildNames(li.model.current_subpath, FALSE)
          /\ Len(last.listing.files) =
                 Cardinality(ChildNames(li.model.current_subpath, FALSE))

\* C9: after a click on a directory entry d other than ".." at subpath p,
\* current_subpath is p joined with d by a forward slash and holds no
\* backslash, active_entry is -1, and the list is ".." followed by the sorted
\* directories and the sorted files with the extension of the new subpath.
C9_DirectoryEntered ==
    ClickedDirectory =>
        /\ li.model.current_subpath =
               JoinedSubpath(last.subpath, last.entries[last.index + 1].name)
        /\ \A k \in 1..Len(li.model.current_subpath) : li.model.current_subpath[k] # "\\"
        /\ li.model.active_entry = -1
        /\ ListRefreshed

\* On Windows, directory b was entered from /a and the list shows one of its
\* two files, the one with the extension.
C9_Witness ==
    /\ ClickedDirectory
    /\ platform = "win32"
    /\ last.subpath = <<"/", "a">>
    /\ li.model.current_subpath = <<"/", "a", "/", "b">>
    /\ last.outcome = "ok"
    /\ Len(last.listing.files) = 2
    /\ Len(li.model.file_entries) = 2

\* The subpath one level above p, "/" above the first level.
UpSubpath(p) ==
    IF Len(SubpathComps(p)) <= 1 THEN <<"/">>
    ELSE Flatten([i \in 1..(Len(SubpathComps(p)) - 1) |-> <<"/">> \o SubpathComps(p)[i]])

\* C10: after a click on ".." current_subpath is the parent of the subpath
\* before, and "/" if that was "/"; if the update before entered a directory
\* from p, it is p again; active_entry is -1 and the list is the listing of
\* the resulting subpath.
C10_ParentEntered ==
    ClickedParent =>
        /\ li.model.current_subpath =
               IF last.subpath = <<"/">> THEN <<"/">> ELSE UpSubpath(last.subpath)
        /\ last.prev_entered_from # <<>> =>
               li.model.current_subpath = last.prev_entered_from
        /\ li.model.active_entry = -1
        /\ ListRefreshed

\* On Windows, ".." was clicked in /a/b right after b was entered from /a,
\* and the list shows /a again.
C10_Witness ==
    /\ ClickedParent
    /\ platform = "win32"
    /\ last.subpath = <<"/", "a", "/", "b">>
    /\ last.prev_entered_from = <<"/", "a">>
    /\ li.model.current_subpath = <<"/", "a">>
    /\ last.outcome = "ok"
    /\ Len(li.model.file_entries) > 2

\* Whether the last handler was a click on a file entry.
ClickedFile ==
    /\ ClickedEntry
    /\ ~last.entries[last.index + 1].is_dir
    /\ last.entries[last.index + 1].name # <<".", ".">>

\* C11: after a click on a file entry, current_subpath and file_entries, the
\* do_import flag of every entry included, are what they were before the
\* click, the converter was not run to list the archive, and active_entry is
\* the index of the clicked file.
C11_FileSelectionChangesNothing ==
    ClickedFile =>
        /\ li.model.current_subpath = last.subpath
        /\ li.model.file_entries = last.entries
        /\ ~last.listed
        /\ li.model.active_entry = last.index

\* In /a, a file was clicked while the box of another file is ticked.
C11_Witness ==
    /\ ClickedFile
    /\ last.subpath = <<"/", "a">>
    /\ \E i \in 1..Len(li.model.file_entries) :
          /\ i # last.index + 1
          /\ li.model.file_entries[i].do_import
    /\ ~li.model.file_entries[last.index + 1].do_import

\* Whether check() was the last handler: ordered_files is up to date with
\* the selection.
Checked == last.op = "check"

ListedPath(name) ==
    [i \in 1..Len(imp.directory) |->
        IF imp.directory[i] = "\\" THEN "/" ELSE imp.directory[i]] \o name

\* The paths of a list of archives to use, as a set.
PathsOf(archives) == {archives[i].path : i \in 1..Len(archives)}

\* The entries an add action appends to the list before for the selected
\* files ordered: one for each file that is not listed in before.
RECURSIVE NewlyListed(_, _)
NewlyListed(ordered, before) ==
    IF ordered = <<>> THEN <<>>
    ELSE (IF ListedPath(Head(ordered)) \in PathsOf(before) THEN <<>>
          ELSE << [path |-> ListedPath(Head(ordered)), selected |-> FALSE] >>)
         \o NewlyListed(Tail(ordered), before)

\* Whether the last handler was check() for "Add Archives to List".
AddedArchives == last.op = "check" /\ last.mode = "archives_to_use_mode"

\* C13: after every step the paths of archives_to_use are pairwise distinct;
\* and an add action leaves the entries of the list as they are and where
\* they are, and appends one entry for each selected file that is not
\* listed, in the order of ordered_files.
C13_NoArchiveListedTwice ==
    [][/\ \A i, j \in 1..Len(imp'.archives_to_use) :
              i # j => imp'.archives_to_use[i].path # imp'.archives_to_use[j].path
       /\ AddedArchives' =>
              imp'.archives_to_use =
                  imp.archives_to_use \o NewlyListed(imp'.ordered_files, imp.archives_to_use)
      ]_vars

\* An add action has run with two files selected: the one selected second
\* was listed already and has stayed first in the list, and the one selected
\* first was appended behind a third archive.
C13_Witness ==
    /\ AddedArchives
    /\ Len(imp.ordered_files) = 2
    /\ Len(imp.archives_to_use) = 3
    /\ imp.archives_to_use[1].path = ListedPath(imp.ordered_files[2])
    /\ imp.archives_to_use[3].path = ListedPath(imp.ordered_files[1])
    /\ imp.archives_to_use[1].selected

=============================================================================
